---- MODULE Spec2Model ----
(***************************************************************************)
(* String analyser service: the analyser (utils/string_analyser.js), the   *)
(* in-memory store (data/store.js) and the /strings router                 *)
(* (routes/strings.js).                                                    *)
(*                                                                         *)
(* A JavaScript string is modelled as a sequence of one-character strings, *)
(* so that length, indexing, reversal, case folding and the regular        *)
(* expressions of the router are computed code unit by code unit.          *)
(* An optional value (undefined | x) is modelled as <<>> | <<x>>.          *)
(***************************************************************************)
EXTENDS Integers, Sequences, FiniteSets, TLC

VARIABLES stringStore, now, request, response, inflight, replies

vars ==
    <<stringStore, now, request, response, inflight, replies>>

-----------------------------------------------------------------------------
(* Characters                                                              *)

LowerLetters ==
    <<"a","b","c","d","e","f","g","h","i","j","k","l","m",
      "n","o","p","q","r","s","t","u","v","w","x","y","z">>

UpperLetters ==
    <<"A","B","C","D","E","F","G","H","I","J","K","L","M",
      "N","O","P","Q","R","S","T","U","V","W","X","Y","Z">>

DigitChars ==
    <<"0","1","2","3","4","5","6","7","8","9">>

OtherChars ==
    <<" ", "\t", ",", "-", ".", "+">>

Alphabet ==
    LowerLetters \o UpperLetters \o DigitChars \o OtherChars

Range(seq) ==
    {seq[i] : i \in 1..Len(seq)}

IndexIn(seq, c) ==
    CHOOSE i \in 1..Len(seq) : seq[i] = c

\* the regular-expression class \s, restricted to the characters of Alphabet
WhiteSpace ==
    {" ", "\t"}

\* the regular-expression class [a-z]
LowerClass ==
    Range(LowerLetters)

\* the regular-expression class \d
DigitClass ==
    Range(DigitChars)

LowerChar(c) ==
    IF c \in Range(UpperLetters) THEN LowerLetters[IndexIn(UpperLetters, c)] ELSE c

\* String.prototype.toLowerCase
toLowerCase(str) ==
    [i \in 1..Len(str) |-> LowerChar(str[i])]

\* str.replace(/\s/g, '')
RemoveWhiteSpace(str) ==
    SelectSeq(str, LAMBDA c : c \notin WhiteSpace)

\* str.split('').reverse().join('')
Reverse(str) ==
    [i \in 1..Len(str) |-> str[Len(str) + 1 - i]]

\* String.prototype.trim
Trim(str) ==
    LET keep == {i \in 1..Len(str) : str[i] \notin WhiteSpace}
    IN  IF keep = {} THEN <<>>
        ELSE SubSeq(str, CHOOSE i \in keep : \A j \in keep : i <= j,
                         CHOOSE i \in keep : \A j \in keep : j <= i)

\* str.startsWith(lit, i - 1), positions counted from 1
StartsWithAt(str, i, lit) ==
    /\ i >= 1
    /\ i + Len(lit) - 1 <= Len(str)
    /\ SubSeq(str, i, i + Len(lit) - 1) = lit

\* String.prototype.includes
Includes(str, sub) ==
    \E i \in 1..(Len(str) + 1) : StartsWithAt(str, i, sub)

\* the position after the longest run of characters of class cls that starts at i
RunEnd(str, i, cls) ==
    LET stops == {j \in i..(Len(str) + 1) : j = Len(str) + 1 \/ str[j] \notin cls}
    IN  CHOOSE j \in stops : \A k \in stops : j <= k

-----------------------------------------------------------------------------
(* utils/string_analyser.js                                                *)

RECURSIVE CodeSum(_)
CodeSum(str) ==
    IF str = <<>> THEN 0 ELSE IndexIn(Alphabet, Head(str)) + CodeSum(Tail(str))

\* crypto's SHA-256 is not computed: the digest is an additive checksum of the
\* content, a deterministic function of the characters with a finite range.
\* Like any digest it maps some distinct strings to one id (here: anagrams).
generateSHA256(str) ==
    CodeSum(str) % 65536

isPalindrome_CaseSensitive(str) ==
    LET word == RemoveWhiteSpace(str)
        reversedWord == Reverse(word)
    IN  reversedWord = word

isPalindrome(str) ==
    LET word == RemoveWhiteSpace(toLowerCase(str))
        reversedWord == Reverse(word)
    IN  reversedWord = word

countCharacterFrequency(str) ==
    [c \in Range(str) |-> Cardinality({i \in 1..Len(str) : str[i] = c})]

\* trimmed.split(/\s+/).length: one token per maximal run of non-whitespace;
\* the empty string splits into one empty token
SplitLength(trimmed) ==
    IF trimmed = <<>> THEN 1
    ELSE Cardinality({i \in 1..Len(trimmed) :
             /\ trimmed[i] \notin WhiteSpace
             /\ (i = 1 \/ trimmed[i - 1] \in WhiteSpace)})

\* str.trim().split(/\s+/).length
WordCount(str) ==
    SplitLength(Trim(str))

analyseString(str) ==
    [length              |-> Len(str),
     is_palindrome       |-> isPalindrome(str),
     unique_characters   |-> Cardinality(Range(str)),
     word_count          |-> WordCount(str),
     sha256_hash         |-> generateSHA256(str),
     character_frequency |-> countCharacterFrequency(str)]

-----------------------------------------------------------------------------
(* data/store.js: the Map is a sequence of records in insertion order, one  *)
(* record per key. Each operation returns the store it leaves and its      *)
(* result.                                                                 *)

StoreHas(store, id) ==
    \E i \in 1..Len(store) : store[i].id = id

addString_NoDuplicateCheck(store, value, properties, time) ==
    LET stringData == [id |-> properties.sha256_hash, value |-> value,
                       properties |-> properties, created_at |-> time]
    IN  [threw |-> FALSE, statusCode |-> 0,
         store |-> Append(store, stringData), ret |-> <<stringData>>]

addString_Prepend(store, value, properties, time) ==
    LET id == properties.sha256_hash
        stringData == [id |-> id, value |-> value,
                       properties |-> properties, created_at |-> time]
    IN  IF StoreHas(store, id)
        THEN [threw |-> TRUE, statusCode |-> 409, store |-> store, ret |-> <<>>]
        ELSE [threw |-> FALSE, statusCode |-> 0,
              store |-> <<stringData>> \o store, ret |-> <<stringData>>]

addString_Overwrite(store, value, properties, time) ==
    LET id == properties.sha256_hash
        stringData == [id |-> id, value |-> value,
                       properties |-> properties, created_at |-> time]
    IN  IF StoreHas(store, id)
        THEN [threw |-> TRUE, statusCode |-> 409,
              store |-> [i \in 1..Len(store) |->
                            IF store[i].id = id THEN stringData ELSE store[i]],
              ret |-> <<>>]
        ELSE [threw |-> FALSE, statusCode |-> 0,
              store |-> Append(store, stringData), ret |-> <<stringData>>]

addString(store, value, properties, time) ==
    LET id == properties.sha256_hash
        stringData == [id |-> id, value |-> value,
                       properties |-> properties, created_at |-> time]
    IN  IF StoreHas(store, id)
        THEN [threw |-> TRUE, statusCode |-> 409, store |-> store, ret |-> <<>>]
        ELSE [threw |-> FALSE, statusCode |-> 0,
              store |-> Append(store, stringData), ret |-> <<stringData>>]

\* the first record, in iteration order, whose value is `value`; <<>> for null
getStringByValue(store, value) ==
    LET hits == {i \in 1..Len(store) : store[i].value = value}
    IN  IF hits = {} THEN <<>>
        ELSE <<store[CHOOSE i \in hits : \A j \in hits : i <= j]>>

getAllString(store) ==
    store

deleteStringByValue_First(store, value) ==
    IF \E i \in 1..Len(store) : store[i].value = value
    THEN [store |-> Tail(store), ret |-> TRUE]
    ELSE [store |-> store, ret |-> FALSE]

deleteStringByValue(store, value) ==
    LET found == getStringByValue(store, value)
    IN  IF found = <<>> THEN [store |-> store, ret |-> FALSE]
        ELSE [store |-> SelectSeq(store, LAMBDA r : r.id # found[1].id),
              ret |-> TRUE]

getCount(store) ==
    Len(store)

clearAll(store) ==
    <<>>

-----------------------------------------------------------------------------
(* routes/strings.js: parseInt and the regular expressions                 *)

HexClass ==
    DigitClass \cup {"a","b","c","d","e","f","A","B","C","D","E","F"}

DigitVal(c) ==
    IF c \in DigitClass THEN IndexIn(DigitChars, c) - 1
    ELSE 9 + IndexIn(LowerLetters, LowerChar(c))

RECURSIVE Numeral(_, _)
Numeral(ds, radix) ==
    IF ds = <<>> THEN 0
    ELSE Numeral(SubSeq(ds, 1, Len(ds) - 1), radix) * radix + DigitVal(ds[Len(ds)])

\* the digits str[from..to-1] read in the radix, negated after a minus sign;
\* NaN when there is no digit
ParseIntRun(str, from, to, radix, neg) ==
    IF to = from THEN [nan |-> TRUE, val |-> 0]
    ELSE [nan |-> FALSE,
          val |-> (IF neg THEN 0 - 1 ELSE 1) * Numeral(SubSeq(str, from, to - 1), radix)]

\* the longest run of digits of the radix from position p; whatever follows
\* the run is ignored
ParseIntDigits(str, p, hex, neg) ==
    ParseIntRun(str, p, RunEnd(str, p, IF hex THEN HexClass ELSE DigitClass),
                IF hex THEN 16 ELSE 10, neg)

\* an optional 0x / 0X prefix selects radix 16
ParseIntPrefix(str, p, hex, neg) ==
    ParseIntDigits(str, IF hex THEN p + 2 ELSE p, hex, neg)

ParseIntRadix(str, p, neg) ==
    ParseIntPrefix(str, p,
                   StartsWithAt(str, p, <<"0","x">>) \/ StartsWithAt(str, p, <<"0","X">>),
                   neg)

SignAt(str, p) ==
    p <= Len(str) /\ str[p] \in {"+", "-"}

\* an optional sign
ParseIntSign(str, p) ==
    ParseIntRadix(str, IF SignAt(str, p) THEN p + 1 ELSE p,
                  SignAt(str, p) /\ str[p] = "-")

\* parseInt(str) with no radix: leading white space is skipped, then an
\* optional sign, an optional 0x / 0X prefix and the longest run of digits
parseInt(str) ==
    ParseIntSign(str, RunEnd(str, 1, WhiteSpace))

\* str.match(re) for a regular expression without the g flag: the match at
\* the leftmost position where the expression matches; matches[i] is the
\* outcome of the attempt at position i, <<>> or <<capture>>
FirstMatch(matches) ==
    LET hits == {i \in DOMAIN matches : matches[i] # <<>>}
    IN  IF hits = {} THEN <<>>
        ELSE matches[CHOOSE i \in hits : \A j \in hits : i <= j]

\* a|b at one position: the first alternative is tried first
OrElse(a, b) ==
    IF a # <<>> THEN a ELSE b

\* lit(\d+) at position i: the digits captured. \d+ is greedy, and a shorter
\* run is never retried with success, since a digit follows it.
DigitsAfter(str, i, lit) ==
    LET p == i + Len(lit)
        e == RunEnd(str, p, DigitClass)
    IN  IF StartsWithAt(str, i, lit) /\ e > p THEN <<SubSeq(str, p, e - 1)>> ELSE <<>>

\* lit(\d+) character at position i
DigitsCharacterAfter(str, i, lit) ==
    LET p == i + Len(lit)
        e == RunEnd(str, p, DigitClass)
    IN  IF /\ StartsWithAt(str, i, lit)
           /\ e > p
           /\ StartsWithAt(str, e, <<" ","c","h","a","r","a","c","t","e","r">>)
        THEN <<SubSeq(str, p, e - 1)>>
        ELSE <<>>

\* /longer than (\d+)|more than (\d+) character/ at position i
longerThanAt(str, i) ==
    OrElse(DigitsAfter(str, i, <<"l","o","n","g","e","r"," ","t","h","a","n"," ">>),
           DigitsCharacterAfter(str, i, <<"m","o","r","e"," ","t","h","a","n"," ">>))

\* /shorter than (\d+)|less than (\d+) character/ at position i
shorterThanAt(str, i) ==
    OrElse(DigitsAfter(str, i, <<"s","h","o","r","t","e","r"," ","t","h","a","n"," ">>),
           DigitsCharacterAfter(str, i, <<"l","e","s","s"," ","t","h","a","n"," ">>))

\* /at least (\d+) character/ at position i
atLeastAt(str, i) ==
    DigitsCharacterAfter(str, i, <<"a","t"," ","l","e","a","s","t"," ">>)

\* \s+ from each position of P: the positions after the white space. \s+ is
\* greedy, and what follows it in these expressions is never white space, so
\* only the whole run can lead to a match.
WhiteSpaceAfter(str, P) ==
    {RunEnd(str, p, WhiteSpace) : p \in {q \in P : RunEnd(str, q, WhiteSpace) > q}}

\* a literal from each position of P
LiteralAfter(str, P, lit) ==
    {p + Len(lit) : p \in {q \in P : StartsWithAt(str, q, lit)}}

\* (?:ing|s)? from each position of P
SuffixAfter(str, P) ==
    LiteralAfter(str, P, <<"i","n","g">>) \cup LiteralAfter(str, P, <<"s">>) \cup P

\* contain(?:ing|s)? at position i: the positions after it
ContainAfter(str, i) ==
    SuffixAfter(str, LiteralAfter(str, {i}, <<"c","o","n","t","a","i","n">>))

\* (?:the\s+)? from each position of P
TheAfter(str, P) ==
    WhiteSpaceAfter(str, LiteralAfter(str, P, <<"t","h","e">>)) \cup P

\* \s+(?:the\s+)?letter\s+([a-z]) from each position of P: the positions of
\* the captured letter
TheLetterAfter(str, P) ==
    {e \in WhiteSpaceAfter(str,
               LiteralAfter(str, TheAfter(str, WhiteSpaceAfter(str, P)),
                            <<"l","e","t","t","e","r">>)) :
        e <= Len(str) /\ str[e] \in LowerClass}

\* the character captured at the one position of E, if any
Captured(str, E) ==
    IF E = {} THEN <<>> ELSE <<str[CHOOSE e \in E : TRUE]>>

\* /contain(?:ing|s)?\s+(?:the\s+)?letter\s+([a-z])|with\s+(?:the\s+)?letter\s+([a-z])/
\* at position i: letterMatch[1] || letterMatch[2]. At most one path of each
\* alternative matches from a given position.
letterAt(str, i) ==
    OrElse(Captured(str, TheLetterAfter(str, ContainAfter(str, i))),
           Captured(str, TheLetterAfter(str, LiteralAfter(str, {i}, <<"w","i","t","h">>))))

\* /contain(?:ing|s)?\s+([a-z])$/ at position i
containsAt(str, i) ==
    Captured(str, {e \in WhiteSpaceAfter(str, ContainAfter(str, i)) :
                      e = Len(str) /\ str[e] \in LowerClass})

\* lowerQuery.match(...) of this pattern
longerThanMatch(str) ==
    FirstMatch([i \in 1..Len(str) |-> longerThanAt(str, i)])

\* lowerQuery.match(...) of this pattern
shorterThanMatch(str) ==
    FirstMatch([i \in 1..Len(str) |-> shorterThanAt(str, i)])

\* lowerQuery.match(...) of this pattern
atLeastMatch(str) ==
    FirstMatch([i \in 1..Len(str) |-> atLeastAt(str, i)])

\* lowerQuery.match(...) of this pattern
letterMatch(str) ==
    FirstMatch([i \in 1..Len(str) |-> letterAt(str, i)])

\* lowerQuery.match(...) of this pattern
containsMatch(str) ==
    FirstMatch([i \in 1..Len(str) |-> containsAt(str, i)])

vowels ==
    <<"a", "e", "i", "o", "u">>

vowelWords ==
    << <<"f","i","r","s","t">>, <<"s","e","c","o","n","d">>, <<"t","h","i","r","d">>,
       <<"f","o","u","r","t","h">>, <<"f","i","f","t","h">> >>

\* lowerQuery.includes(`${word} vowel`) for vowelWords[k]
VowelPhrase(lowerQuery, k) ==
    Includes(lowerQuery, vowelWords[k] \o <<" ","v","o","w","e","l">>)

\* the ordinals named in the query
Spoken(lowerQuery) ==
    {k \in 1..Len(vowelWords) : VowelPhrase(lowerQuery, k)}

\* const filters = {}
NoFilters ==
    [is_palindrome |-> <<>>, min_length |-> <<>>, max_length |-> <<>>,
     word_count |-> <<>>, contains_character |-> <<>>]

\* Object.keys(filters).length === 0
NoKeys(filters) ==
    filters = NoFilters

\* if (match) filters.min_length = parseInt(match[1]) + delta
SetMinLength(filters, match, delta) ==
    [filters EXCEPT !.min_length =
        IF match # <<>> THEN <<parseInt(match[1]).val + delta>> ELSE @]

\* if (match) filters.max_length = parseInt(match[1]) - 1
SetMaxLength(filters, match) ==
    [filters EXCEPT !.max_length =
        IF match # <<>> THEN <<parseInt(match[1]).val - 1>> ELSE @]

SetContainsCharacter_UnlessSet(filters, match) ==
    [filters EXCEPT !.contains_character =
        IF match # <<>> /\ @ = <<>> THEN <<match>> ELSE @]

\* if (match) filters.contains_character = match[1]
SetContainsCharacter(filters, match) ==
    [filters EXCEPT !.contains_character = IF match # <<>> THEN <<match>> ELSE @]

\* vowelWords.forEach: every ordinal present assigns, so the last one wins
SetVowel(filters, spoken) ==
    [filters EXCEPT !.contains_character =
        IF spoken # {}
        THEN << <<vowels[CHOOSE k \in spoken : \A m \in spoken : m <= k]>> >>
        ELSE @]

\* Patterns 1 to 6 of parseNaturalLanguageQuery
LengthFilters(lowerQuery) ==
    LET \* Pattern 1
        f1 == [NoFilters EXCEPT !.is_palindrome =
                 IF Includes(lowerQuery, <<"p","a","l","i","n","d","r","o","m">>)
                 THEN <<TRUE>> ELSE @]
        \* Pattern 2
        f2 == [f1 EXCEPT !.word_count =
                 IF \/ Includes(lowerQuery, <<"s","i","n","g","l","e"," ","w","o","r","d">>)
                    \/ Includes(lowerQuery, <<"o","n","e"," ","w","o","r","d">>)
                 THEN <<1>> ELSE @]
        \* Pattern 3
        f3 == [f2 EXCEPT !.word_count =
                 IF \/ Includes(lowerQuery, <<"t","w","o"," ","w","o","r","d">>)
                    \/ Includes(lowerQuery, <<"d","o","u","b","l","e"," ","w","o","r","d">>)
                 THEN <<2>> ELSE @]
        \* Pattern 4
        f4 == SetMinLength(f3, longerThanMatch(lowerQuery), 1)
        \* Pattern 5
        f5 == SetMaxLength(f4, shorterThanMatch(lowerQuery))
        \* Pattern 6
    IN  SetMinLength(f5, atLeastMatch(lowerQuery), 0)

ParseLowerQuery_Rule7Wins(lowerQuery) ==
    LET f7 == SetContainsCharacter(LengthFilters(lowerQuery),
                                   letterMatch(lowerQuery))
        f8 == SetContainsCharacter_UnlessSet(f7, containsMatch(lowerQuery))
    IN  SetVowel(f8, Spoken(lowerQuery))

\* Patterns 7 to 9 of parseNaturalLanguageQuery, after patterns 1 to 6
ParseLowerQuery(lowerQuery) ==
    LET \* Pattern 7
        f7 == SetContainsCharacter(LengthFilters(lowerQuery),
                                   letterMatch(lowerQuery))
        \* Pattern 8
        f8 == SetContainsCharacter(f7, containsMatch(lowerQuery))
        \* Pattern 9
    IN  SetVowel(f8, Spoken(lowerQuery))

parseNaturalLanguageQuery(query) ==
    ParseLowerQuery(toLowerCase(query))

-----------------------------------------------------------------------------
(* routes/strings.js: the handlers. A handler returns the store it leaves  *)
(* and the response it sends.                                              *)

\* req.query of a request without a query string
NoQuery ==
    [is_palindrome |-> <<>>, min_length |-> <<>>, max_length |-> <<>>,
     word_count |-> <<>>, contains_character |-> <<>>, query |-> <<>>]

\* a request without a body
NoBody ==
    [kind |-> "missing", value |-> <<>>]

\* res.status(status).json(...): data holds the record or records sent,
\* filters holds filters_applied / parsed_filters
Reply(status, data, filters) ==
    [status |-> status, data |-> data, count |-> Len(data), filters |-> filters]

\* createStringSchema.validate(req.body): the status of the error, 0 for none
ValidationStatus(body) ==
    IF body.kind = "missing" THEN 400          \* any.required
    ELSE IF body.kind # "string" THEN 422      \* string.base
    ELSE IF body.value = <<>> THEN 400         \* string.empty
    ELSE 0

\* Steps 3 and 4 of router.post('/'): the response to what addString did
PostOutcome(added) ==
    IF ~added.threw
    THEN [store |-> added.store, res |-> Reply(201, added.ret, NoFilters)]
    ELSE IF added.statusCode = 409
    THEN [store |-> added.store, res |-> Reply(409, <<>>, NoFilters)]
    ELSE [store |-> added.store, res |-> Reply(500, <<>>, NoFilters)]

\* router.post('/')
PostStrings(store, body, time) ==
    IF ValidationStatus(body) # 0
    THEN [store |-> store, res |-> Reply(ValidationStatus(body), <<>>, NoFilters)]
    ELSE PostOutcome(addString(store, body.value, analyseString(body.value), time))

\* Step 5 of router.get('/filter-by-natural-language'): the filters present
\* are applied one after the other, each keeping the order of the list
ApplyParsedFilters(strings, parsedFilters) ==
    LET s1 == SelectSeq(strings, LAMBDA s :
                  parsedFilters.is_palindrome # <<>> =>
                      s.properties.is_palindrome = parsedFilters.is_palindrome[1])
        s2 == SelectSeq(s1, LAMBDA s :
                  parsedFilters.min_length # <<>> =>
                      s.properties.length >= parsedFilters.min_length[1])
        s3 == SelectSeq(s2, LAMBDA s :
                  parsedFilters.max_length # <<>> =>
                      s.properties.length <= parsedFilters.max_length[1])
        s4 == SelectSeq(s3, LAMBDA s :
                  parsedFilters.word_count # <<>> =>
                      s.properties.word_count = parsedFilters.word_count[1])
    IN  SelectSeq(s4, LAMBDA s :
            parsedFilters.contains_character # <<>> =>
                Includes(s.value, parsedFilters.contains_character[1]))

\* Steps 4 to 6 of router.get('/filter-by-natural-language')
NaturalLanguageReply(store, parsedFilters) ==
    IF NoKeys(parsedFilters)
    THEN [store |-> store, res |-> Reply(400, <<>>, NoFilters)]
    ELSE [store |-> store,
          res   |-> Reply(200, ApplyParsedFilters(getAllString(store), parsedFilters),
                          parsedFilters)]

\* router.get('/filter-by-natural-language')
GetFilterByNaturalLanguage(store, q) ==
    IF q.query = <<>> \/ q.query[1] = <<>>      \* !query
    THEN [store |-> store, res |-> Reply(400, <<>>, NoFilters)]
    ELSE NaturalLanguageReply(store, parseNaturalLanguageQuery(q.query[1]))

ApplyFilters_ExclusiveBounds(store, q, minLength, maxLength, wordCount) ==
    LET isPalindromeFilter ==
            q.is_palindrome # <<>> /\ q.is_palindrome[1] = <<"t","r","u","e">>
        s1 == SelectSeq(getAllString(store), LAMBDA s :
                  q.is_palindrome # <<>> =>
                      s.properties.is_palindrome = isPalindromeFilter)
        s2 == SelectSeq(s1, LAMBDA s :
                  q.min_length # <<>> => s.properties.length > minLength.val)
        s3 == SelectSeq(s2, LAMBDA s :
                  q.max_length # <<>> => s.properties.length <= maxLength.val)
        s4 == SelectSeq(s3, LAMBDA s :
                  q.word_count # <<>> => s.properties.word_count = wordCount.val)
        s5 == SelectSeq(s4, LAMBDA s :
                  q.contains_character # <<>> =>
                      Includes(s.value, q.contains_character[1]))
        filtersApplied ==
            [is_palindrome      |-> IF q.is_palindrome = <<>> THEN <<>>
                                    ELSE <<isPalindromeFilter>>,
             min_length         |-> IF q.min_length = <<>> THEN <<>> ELSE <<minLength.val>>,
             max_length         |-> IF q.max_length = <<>> THEN <<>> ELSE <<maxLength.val>>,
             word_count         |-> IF q.word_count = <<>> THEN <<>> ELSE <<wordCount.val>>,
             contains_character |-> q.contains_character]
    IN  IF \/ (q.min_length # <<>> /\ minLength.nan)
           \/ (q.max_length # <<>> /\ maxLength.nan)
           \/ (q.word_count # <<>> /\ wordCount.nan)
           \/ (q.contains_character # <<>> /\ Len(q.contains_character[1]) # 1)
        THEN [store |-> store, res |-> Reply(400, <<>>, NoFilters)]
        ELSE [store |-> store, res |-> Reply(200, s5, filtersApplied)]

\* Steps 4 and 5 of router.get('/'), with the numeric parameters that are
\* present already passed through parseInt: a parameter that is NaN, or a
\* contains_character that is not one character long, ends the request
\* with 400
ApplyFilters(store, q, minLength, maxLength, wordCount) ==
    LET isPalindromeFilter ==
            q.is_palindrome # <<>> /\ q.is_palindrome[1] = <<"t","r","u","e">>
        s1 == SelectSeq(getAllString(store), LAMBDA s :
                  q.is_palindrome # <<>> =>
                      s.properties.is_palindrome = isPalindromeFilter)
        s2 == SelectSeq(s1, LAMBDA s :
                  q.min_length # <<>> => s.properties.length >= minLength.val)
        s3 == SelectSeq(s2, LAMBDA s :
                  q.max_length # <<>> => s.properties.length <= maxLength.val)
        s4 == SelectSeq(s3, LAMBDA s :
                  q.word_count # <<>> => s.properties.word_count = wordCount.val)
        s5 == SelectSeq(s4, LAMBDA s :
                  q.contains_character # <<>> =>
                      Includes(s.value, q.contains_character[1]))
        filtersApplied ==
            [is_palindrome      |-> IF q.is_palindrome = <<>> THEN <<>>
                                    ELSE <<isPalindromeFilter>>,
             min_length         |-> IF q.min_length = <<>> THEN <<>> ELSE <<minLength.val>>,
             max_length         |-> IF q.max_length = <<>> THEN <<>> ELSE <<maxLength.val>>,
             word_count         |-> IF q.word_count = <<>> THEN <<>> ELSE <<wordCount.val>>,
             contains_character |-> q.contains_character]
    IN  IF \/ (q.min_length # <<>> /\ minLength.nan)
           \/ (q.max_length # <<>> /\ maxLength.nan)
           \/ (q.word_count # <<>> /\ wordCount.nan)
           \/ (q.contains_character # <<>> /\ Len(q.contains_character[1]) # 1)
        THEN [store |-> store, res |-> Reply(400, <<>>, NoFilters)]
        ELSE [store |-> store, res |-> Reply(200, s5, filtersApplied)]

\* parseInt(param) of a parameter that is present
ParsedParam(param) ==
    IF param = <<>> THEN [nan |-> FALSE, val |-> 0] ELSE parseInt(param[1])

\* router.get('/')
GetStrings(store, q) ==
    ApplyFilters(store, q, ParsedParam(q.min_length), ParsedParam(q.max_length),
                 ParsedParam(q.word_count))

\* router.get('/:string_value')
GetStringValue(store, stringValue) ==
    LET stringData == getStringByValue(store, stringValue)
    IN  IF stringData = <<>>
        THEN [store |-> store, res |-> Reply(404, <<>>, NoFilters)]
        ELSE [store |-> store, res |-> Reply(200, stringData, NoFilters)]

\* router.delete('/:string_value')
DeleteStringValue(store, stringValue) ==
    LET deleted == deleteStringByValue(store, stringValue)
    IN  IF ~deleted.ret
        THEN [store |-> deleted.store, res |-> Reply(404, <<>>, NoFilters)]
        ELSE [store |-> deleted.store, res |-> Reply(204, <<>>, NoFilters)]

\* the path of the natural-language route
FilterByNaturalLanguage ==
    <<"f","i","l","t","e","r","-","b","y","-","n","a","t","u","r","a","l","-",
      "l","a","n","g","u","a","g","e">>

\* the GET routes of the router, tried in the order they are registered;
\* path is the segment after /strings/, <<>> for /strings itself
GetRoute(store, path, q) ==
    IF path = FilterByNaturalLanguage THEN GetFilterByNaturalLanguage(store, q)
    ELSE IF path = <<>> THEN GetStrings(store, q)
    ELSE GetStringValue(store, path)

\* app.use('/strings', stringsRouter), then the 404 handler of the app
Handle(store, req, time) ==
    IF req.method = "POST" /\ req.path = <<>>
    THEN PostStrings(store, req.body, time)
    ELSE IF req.method = "GET"
    THEN GetRoute(store, req.path, req.query)
    ELSE IF req.method = "DELETE" /\ req.path # <<>>
    THEN DeleteStringValue(store, req.path)
    ELSE [store |-> store, res |-> Reply(404, <<>>, NoFilters)]

-----------------------------------------------------------------------------
(* Bounds and the inputs drawn from them                                   *)

NumValues ==
    4

MaxClock ==
    1

NumFilterValues ==
    4

NumClients ==
    3

MaxFrags ==
    2

MaxLen ==
    3

\* values posted, fetched and deleted under Spec; "ab" and "ba" share a digest
CrudValueList ==
    << FilterByNaturalLanguage,
       <<"a","b">>,
       <<"b","a">>,
       <<"h","e","l","l","o">>,
       <<"r","a","c","e","c","a","r">>,
       <<"A","b","a">> >>

CrudValues ==
    {CrudValueList[i] : i \in 1..NumValues}

\* values posted under SpecFilter, of lengths 3, 5, 7, 10, 3, 13
FilterValueList ==
    << <<"A","b","a">>,
       <<"h","e","l","l","o">>,
       <<"r","a","c","e","c","a","r">>,
       <<"r","a","c","e"," ","a"," ","c","a","r">>,
       <<"a"," ","b">>,
       <<"A"," ","m","a","n",","," ","a"," ","p","l","a","n">> >>

FilterValues ==
    {FilterValueList[i] : i \in 1..NumFilterValues}

\* values posted by the concurrent clients; "ab" and "ba" share a digest
ConcurrentValues ==
    {<<"a","b">>, <<"b","a">>, <<"h","e","l","l","o">>}

\* values analysed under SpecAnalyse: the strings the specification names
\* and every string of 1..MaxLen characters over a small alphabet
NamedValues ==
    {<<"r","a","c","e","c","a","r">>,
     <<"r","a","c","e"," ","a"," ","c","a","r">>,
     <<"h","e","l","l","o">>,
     <<"A"," ","m","a","n",","," ","a"," ","p","l","a","n">>}

AnalyseValues ==
    NamedValues \cup UNION {[1..n -> {"a", "b", "A", " ", ","}] : n \in 1..MaxLen}

Clients ==
    1..NumClients

Req(method, path, q, body) ==
    [method |-> method, path |-> path, query |-> q, body |-> body]

StringBody(v) ==
    [kind |-> "string", value |-> v]

PostOf(v) ==
    Req("POST", <<>>, NoQuery, StringBody(v))

\* bodies createStringSchema rejects: no value, a number, the empty string
InvalidBodies ==
    {NoBody, [kind |-> "number", value |-> <<>>], StringBody(<<>>)}

ListOf(q) ==
    Req("GET", <<>>, q, NoBody)

NaturalLanguageOf(text) ==
    Req("GET", FilterByNaturalLanguage, [NoQuery EXCEPT !.query = <<text>>], NoBody)

\* query strings of GET /strings under Spec, well-formed and malformed
MainFilters ==
    {NoQuery,
     [NoQuery EXCEPT !.min_length = << <<"5">> >>, !.max_length = << <<"9">> >>],
     [NoQuery EXCEPT !.min_length = << <<"5","a","b","c">> >>],
     [NoQuery EXCEPT !.max_length = << <<"5",".","5">> >>],
     [NoQuery EXCEPT !.word_count = << <<"a","b","c">> >>],
     [NoQuery EXCEPT !.contains_character = << <<"a","b">> >>]}

\* the well-formed query strings of GET /strings under SpecFilter
ValidFilters ==
    {[is_palindrome |-> p, min_length |-> lo, max_length |-> hi,
      word_count |-> w, contains_character |-> c, query |-> <<>>] :
        p  \in {<<>>, << <<"t","r","u","e">> >>, << <<"f","a","l","s","e">> >>},
        lo \in {<<>>, << <<"5">> >>},
        hi \in {<<>>, << <<"9">> >>, << <<"7">> >>},
        w  \in {<<>>, << <<"1">> >>},
        c  \in {<<>>, << <<"A">> >>}}

\* queries of the natural-language route under Spec
MainQueries ==
    {<<"p","a","l","i","n","d","r","o","m","e">>,
     <<"c","o","n","t","a","i","n","s"," ","b">>,
     <<"x","y","z">>,
     <<>>}

\* phrases the queries of SpecTranslate are made of
Fragments ==
    << <<"w","i","t","h"," ","t","h","e"," ","l","e","t","t","e","r"," ","a">>,
       <<"C","o","n","t","a","i","n","i","n","g"," ","l","e","t","t","e","r"," ","b">>,
       <<" ","c","o","n","t","a","i","n","s"," ","c">>,
       <<" ","c","o","n","t","a","i","n"," ","d">>,
       <<" ","f","i","r","s","t"," ","v","o","w","e","l">>,
       <<" ","p","a","l","i","n","d","r","o","m","i","c">>,
       <<" ","l","o","n","g","e","r"," ","t","h","a","n"," ","1","0"," ",
         "c","h","a","r","a","c","t","e","r","s">>,
       <<" ","x","y","z">> >>

RECURSIVE Concat(_)
Concat(parts) ==
    IF parts = <<>> THEN <<>> ELSE Fragments[Head(parts)] \o Concat(Tail(parts))

TranslateQueries ==
    {Concat(ix) : ix \in UNION {[1..n -> 1..Len(Fragments)] : n \in 1..MaxFrags}}

-----------------------------------------------------------------------------
(* The server. A handler is synchronous: a request is handled to           *)
(* completion in one step. `request` and `response` are the last operation *)
(* served in sequence and its outcome; `inflight` holds the requests of    *)
(* the one-shot clients that have arrived and are not yet handled, and     *)
(* `replies` what each of these clients was answered.                      *)

NoRequest ==
    Req("none", <<>>, NoQuery, NoBody)

StoreCall(name) ==
    Req(name, <<>>, NoQuery, NoBody)

Idle ==
    /\ stringStore = <<>>
    /\ now = 0
    /\ request = NoRequest
    /\ response = Reply(0, <<>>, NoFilters)
    /\ replies = [c \in Clients |-> <<>>]

Init ==
    /\ Idle
    /\ inflight = {}

\* time passes: new Date() never runs backwards
Tick ==
    /\ now < MaxClock
    /\ now' = now + 1
    /\ UNCHANGED <<stringStore, request, response, inflight, replies>>

\* POST /strings with a string value
Post(values) ==
    \E v \in values :
        LET out == Handle(stringStore, PostOf(v), now)
        IN  /\ stringStore' = out.store
            /\ request' = PostOf(v)
            /\ response' = out.res
            /\ UNCHANGED <<now, inflight, replies>>

\* POST /strings with a body the schema rejects
PostInvalid ==
    \E b \in InvalidBodies :
        LET out == Handle(stringStore, Req("POST", <<>>, NoQuery, b), now)
        IN  /\ stringStore' = out.store
            /\ request' = Req("POST", <<>>, NoQuery, b)
            /\ response' = out.res
            /\ UNCHANGED <<now, inflight, replies>>

\* GET /strings/v
GetValue(values) ==
    \E v \in values :
        LET out == Handle(stringStore, Req("GET", v, NoQuery, NoBody), now)
        IN  /\ stringStore' = out.store
            /\ request' = Req("GET", v, NoQuery, NoBody)
            /\ response' = out.res
            /\ UNCHANGED <<now, inflight, replies>>

\* DELETE /strings/v
DeleteValue(values) ==
    \E v \in values :
        LET out == Handle(stringStore, Req("DELETE", v, NoQuery, NoBody), now)
        IN  /\ stringStore' = out.store
            /\ request' = Req("DELETE", v, NoQuery, NoBody)
            /\ response' = out.res
            /\ UNCHANGED <<now, inflight, replies>>

\* GET /strings?q
List(queries) ==
    \E q \in queries :
        LET out == Handle(stringStore, ListOf(q), now)
        IN  /\ stringStore' = out.store
            /\ request' = ListOf(q)
            /\ response' = out.res
            /\ UNCHANGED <<now, inflight, replies>>

\* GET /strings/filter-by-natural-language?query=text
NaturalLanguage(texts) ==
    \E text \in texts :
        LET out == Handle(stringStore, NaturalLanguageOf(text), now)
        IN  /\ stringStore' = out.store
            /\ request' = NaturalLanguageOf(text)
            /\ response' = out.res
            /\ UNCHANGED <<now, inflight, replies>>

\* store.clearAll(), called directly
ClearAll ==
    /\ stringStore' = clearAll(stringStore)
    /\ request' = StoreCall("clearAll")
    /\ response' = Reply(0, <<>>, NoFilters)
    /\ UNCHANGED <<now, inflight, replies>>

\* store.getCount(), called directly
GetCount ==
    /\ request' = StoreCall("getCount")
    /\ response' = [Reply(0, <<>>, NoFilters) EXCEPT !.count = getCount(stringStore)]
    /\ UNCHANGED <<stringStore, now, inflight, replies>>

\* the request of one-shot client c arrives
Send(c, requests) ==
    /\ replies[c] = <<>>
    /\ \A e \in inflight : e.cid # c
    /\ \E r \in requests : inflight' = inflight \cup {[cid |-> c, req |-> r]}
    /\ UNCHANGED <<stringStore, now, request, response, replies>>

\* the handler of the arrived request of client c runs
Process(c) ==
    \E e \in inflight :
        /\ e.cid = c
        /\ LET out == Handle(stringStore, e.req, now)
           IN  /\ stringStore' = out.store
               /\ replies' = [replies EXCEPT ![c] = <<[req |-> e.req, res |-> out.res]>>]
        /\ inflight' = inflight \ {e}
        /\ UNCHANGED <<now, request, response>>

Next ==
    \/ Tick
    \/ Post(CrudValues)
    \/ PostInvalid
    \/ GetValue(CrudValues)
    \/ DeleteValue(CrudValues)
    \/ List(MainFilters)
    \/ NaturalLanguage(MainQueries)
    \/ ClearAll
    \/ GetCount

Spec ==
    Init /\ [][Next]_vars

\* GET /strings with a well-formed query string, from one client, while
\* strings are being posted
NextFilter ==
    \/ Post(FilterValues)
    \/ Send(1, {ListOf(q) : q \in ValidFilters})
    \/ Process(1)

SpecFilter ==
    Init /\ [][NextFilter]_vars

\* one POST /strings, its value drawn from AnalyseValues
InitAnalyse ==
    /\ Idle
    /\ \E v \in AnalyseValues : inflight = {[cid |-> 1, req |-> PostOf(v)]}

NextAnalyse ==
    Process(1)

SpecAnalyse ==
    InitAnalyse /\ [][NextAnalyse]_vars

\* one natural-language request, its query drawn from TranslateQueries
InitTranslate ==
    /\ Idle
    /\ \E text \in TranslateQueries : inflight = {[cid |-> 1, req |-> NaturalLanguageOf(text)]}

NextTranslate ==
    Process(1)

SpecTranslate ==
    InitTranslate /\ [][NextTranslate]_vars

\* requests of the concurrent clients
ConcurrentRequests ==
    {PostOf(v) : v \in ConcurrentValues}
        \cup {Req("DELETE", v, NoQuery, NoBody) : v \in ConcurrentValues}

\* every client sends one request; the requests are handled in any order
NextConcurrent ==
    \E c \in Clients :
        \/ Send(c, ConcurrentRequests)
        \/ Process(c)

SpecConcurrent ==
    Init /\ [][NextConcurrent]_vars

-----------------------------------------------------------------------------
(* Properties                                                              *)

\* a step that serves one operation in sequence (not Tick, Send or Process)
OperationStep ==
    /\ now' = now
    /\ inflight' = inflight
    /\ replies' = replies

IsPostOfString(req) ==
    /\ req.method = "POST"
    /\ req.path = <<>>
    /\ req.body.kind = "string"
    /\ req.body.value # <<>>

ValueStored(store, v) ==
    \E i \in 1..Len(store) : store[i].value = v

RecordsWithId(store, id) ==
    {i \in 1..Len(store) : store[i].id = id}

\* the records whose value is not v, in store order
Others(store, v) ==
    SelectSeq(store, LAMBDA r : r.value # v)

Replied(c) ==
    replies[c] # <<>>

\* C1: adding a value whose hash id is already a key of the store (the same
\* value again, or another value with the same digest) is answered 409 and
\* leaves the store exactly as it was.
C1_DuplicateRejected ==
    [][(/\ OperationStep
        /\ IsPostOfString(request')
        /\ StoreHas(stringStore, generateSHA256(request'.body.value)))
       => (/\ response'.status = 409
           /\ response'.data = <<>>
           /\ stringStore' = stringStore)]_vars

\* a POST was answered 409 because another value with the same digest is stored
C1_Witness ==
    /\ IsPostOfString(request)
    /\ response.status = 409
    /\ \E i \in 1..Len(stringStore) :
           /\ stringStore[i].id = generateSHA256(request.body.value)
           /\ stringStore[i].value # request.body.value

\* C2: deleting by value succeeds exactly when a record with that value is
\* stored; after a success the value is absent and a repeated delete fails;
\* the records of other values stay, unchanged and in the same order.
C2_DeleteByValue ==
    [][(OperationStep /\ request'.method = "DELETE")
       => (/\ response'.status = (IF ValueStored(stringStore, request'.path)
                                  THEN 204 ELSE 404)
           /\ getStringByValue(stringStore', request'.path) = <<>>
           /\ ~deleteStringByValue(stringStore', request'.path).ret
           /\ Others(stringStore', request'.path) = Others(stringStore, request'.path)
           /\ Len(stringStore') = Len(Others(stringStore, request'.path)))]_vars

\* a value was deleted from a store that holds other records
C2_Witness ==
    /\ request.method = "DELETE"
    /\ response.status = 204
    /\ Len(stringStore) >= 2

\* the filters of a query string as the interface gives them: the decimal
\* value of a numeric parameter
DecimalValue(str) ==
    IF str[1] = "-" THEN 0 - Numeral(Tail(str), 10)
    ELSE IF str[1] = "+" THEN Numeral(Tail(str), 10)
    ELSE Numeral(str, 10)

\* a record satisfies every filter present in q
Satisfies(r, q) ==
    /\ q.is_palindrome # <<>> =>
           (r.properties.is_palindrome <=> q.is_palindrome[1] = <<"t","r","u","e">>)
    /\ q.min_length # <<>> => r.properties.length >= DecimalValue(q.min_length[1])
    /\ q.max_length # <<>> => r.properties.length <= DecimalValue(q.max_length[1])
    /\ q.word_count # <<>> => r.properties.word_count = DecimalValue(q.word_count[1])
    /\ q.contains_character # <<>> =>
           \E i \in 1..Len(r.value) : r.value[i] = q.contains_character[1][1]

Lengths(records) ==
    [i \in 1..Len(records) |-> records[i].properties.length]

MinFiveMaxNine ==
    [NoQuery EXCEPT !.min_length = << <<"5">> >>, !.max_length = << <<"9">> >>]

\* C3: GET /strings with a well-formed query string returns exactly the
\* records that satisfy every filter present, in store order; with
\* {min_length: 5, max_length: 9} over records of lengths 3, 5, 7 and 10 it
\* returns the records of lengths 5 and 7.
C3_FilterSemantics ==
    [][\A c \in Clients :
          (~Replied(c) /\ replies'[c] # <<>> /\ replies'[c][1].req.query \in ValidFilters)
          => (/\ replies'[c][1].res.status = 200
              /\ replies'[c][1].res.data =
                     SelectSeq(stringStore,
                               LAMBDA r : Satisfies(r, replies'[c][1].req.query))
              /\ (/\ replies'[c][1].req.query = MinFiveMaxNine
                  /\ Range(Lengths(stringStore)) = {3, 5, 7, 10}
                  /\ Len(stringStore) = 4)
                 => Range(Lengths(replies'[c][1].res.data)) = {5, 7}
                    /\ Len(replies'[c][1].res.data) = 2)]_vars

\* {min_length: 5, max_length: 9} was answered over records of lengths 3, 5, 7, 10
C3_Witness ==
    /\ Replied(1)
    /\ replies[1][1].req.query = MinFiveMaxNine
    /\ Range(Lengths(stringStore)) = {3, 5, 7, 10}
    /\ Len(stringStore) = 4
    /\ Len(replies[1][1].res.data) = 2

\* rules 7 and 8 both match the lower-cased query, and no ordinal-vowel phrase
BothLetterRules(lowerQuery) ==
    /\ letterMatch(lowerQuery) # <<>>
    /\ containsMatch(lowerQuery) # <<>>
    /\ Spoken(lowerQuery) = {}

\* C4 as stated: when rules 7 and 8 both match, and no ordinal-vowel phrase,
\* contains_character is the letter captured by rule 7.
C4_Rule7Wins ==
    \A c \in Clients :
        (Replied(c) /\ BothLetterRules(toLowerCase(replies[c][1].req.query.query[1])))
        => replies[c][1].res.filters.contains_character =
               <<letterMatch(toLowerCase(replies[c][1].req.query.query[1]))>>

\* C4 as amended: when rules 7 and 8 both match, and no ordinal-vowel phrase,
\* contains_character is the letter captured by rule 8, which is applied
\* after rule 7 and overwrites it.
C4_Rule8Overwrites ==
    \A c \in Clients :
        (Replied(c) /\ BothLetterRules(toLowerCase(replies[c][1].req.query.query[1])))
        => /\ replies[c][1].res.status = 200
           /\ replies[c][1].res.filters.contains_character =
                  <<containsMatch(toLowerCase(replies[c][1].req.query.query[1]))>>

\* a query matched both rules with different letters
C4_Witness ==
    /\ Replied(1)
    /\ BothLetterRules(toLowerCase(replies[1][1].req.query.query[1]))
    /\ letterMatch(toLowerCase(replies[1][1].req.query.query[1]))
           # containsMatch(toLowerCase(replies[1][1].req.query.query[1]))

\* v, lower-cased and without its white space, reads the same from both ends
ReadsTheSameBothWays(v) ==
    LET w == SelectSeq([i \in 1..Len(v) |-> LowerChar(v[i])],
                       LAMBDA ch : ch \notin WhiteSpace)
    IN  \A i \in 1..Len(w) : w[i] = w[Len(w) + 1 - i]

\* is_palindrome of the record a POST created
AnalysedPalindrome(c) ==
    replies[c][1].res.data[1].properties.is_palindrome

PalindromeRule(c) ==
    /\ replies[c][1].res.status = 201
    /\ AnalysedPalindrome(c) <=> ReadsTheSameBothWays(replies[c][1].req.body.value)
    /\ replies[c][1].req.body.value = <<"r","a","c","e","c","a","r">>
           => AnalysedPalindrome(c)
    /\ replies[c][1].req.body.value = <<"h","e","l","l","o">>
           => ~AnalysedPalindrome(c)
    /\ replies[c][1].req.body.value =
           <<"A"," ","m","a","n",","," ","a"," ","p","l","a","n">>
           => ~AnalysedPalindrome(c)

\* C5 as stated: is_palindrome is true exactly when the value, lower-cased
\* and with its white space removed, equals its reversal; "racecar" and
\* "race a car" are palindromic, "hello" and "A man, a plan" are not.
C5_RaceACarPalindromic ==
    \A c \in Clients :
        Replied(c)
        => /\ PalindromeRule(c)
           /\ replies[c][1].req.body.value = <<"r","a","c","e"," ","a"," ","c","a","r">>
                  => AnalysedPalindrome(c)

\* C5 as amended: is_palindrome is true exactly when the value, lower-cased
\* and with its white space removed, equals its reversal; "racecar" is
\* palindromic, "race a car", "hello" and "A man, a plan" are not.
C5_Palindrome ==
    \A c \in Clients :
        Replied(c)
        => /\ PalindromeRule(c)
           /\ replies[c][1].req.body.value = <<"r","a","c","e"," ","a"," ","c","a","r">>
                  => ~AnalysedPalindrome(c)

\* "race a car" was analysed
C5_Witness ==
    /\ Replied(1)
    /\ replies[1][1].req.body.value = <<"r","a","c","e"," ","a"," ","c","a","r">>
    /\ replies[1][1].res.status = 201

\* text is an integer: an optional sign and digits, nothing else
IsIntegerText(str) ==
    LET digits == IF str # <<>> /\ str[1] \in {"+", "-"} THEN Tail(str) ELSE str
    IN  digits # <<>> /\ \A i \in 1..Len(digits) : digits[i] \in DigitClass

Malformed(q) ==
    \/ q.min_length # <<>> /\ ~IsIntegerText(q.min_length[1])
    \/ q.max_length # <<>> /\ ~IsIntegerText(q.max_length[1])
    \/ q.word_count # <<>> /\ ~IsIntegerText(q.word_count[1])
    \/ q.contains_character # <<>> /\ Len(q.contains_character[1]) # 1

\* C6: GET /strings answers 400 when min_length, max_length or word_count
\* is present and is not an integer, or contains_character is present and is
\* not exactly one character; every other request is answered 200.
C6_MalformedFiltersRejected ==
    (request.method = "GET" /\ request.path = <<>>)
    => response.status = (IF Malformed(request.query) THEN 400 ELSE 200)

\* C7: GET /strings/v answers 200 with the record of v (id the hash of v)
\* when v is stored and 404 when it is not, whichever path segment v spells.
C7_GetByValue ==
    (request.method = "GET" /\ request.path # <<>> /\ request.query = NoQuery)
    => IF ValueStored(stringStore, request.path)
       THEN /\ response.status = 200
            /\ Len(response.data) = 1
            /\ response.data[1].value = request.path
            /\ response.data[1].id = generateSHA256(request.path)
       ELSE response.status = 404

IsCreated(req, res) ==
    IsPostOfString(req) /\ res.status = 201

\* C8: getAll returns every stored record exactly once, in the order of the
\* insertions that put them there: a successful add puts the new record
\* after all records already present (also when its value was stored and
\* deleted before), and no other operation reorders the records that stay.
C8_InsertionOrder ==
    [][/\ \A i, j \in 1..Len(stringStore') :
              /\ (i # j => getAllString(stringStore')[i].id # getAllString(stringStore')[j].id)
              /\ (i < j => getAllString(stringStore')[i].created_at
                               <= getAllString(stringStore')[j].created_at)
       /\ IF OperationStep /\ IsCreated(request', response')
          THEN /\ getAllString(stringStore')
                      = Append(getAllString(stringStore), response'.data[1])
               /\ response'.data[1].value = request'.body.value
               /\ response'.data[1].created_at = now
          ELSE getAllString(stringStore')
                   = SelectSeq(getAllString(stringStore),
                               LAMBDA r : StoreHas(stringStore', r.id))]_vars

\* a record was added, later than the records before it, to a store of two or more
C8_Witness ==
    /\ IsCreated(request, response)
    /\ Len(stringStore) >= 3
    /\ stringStore[Len(stringStore)] = response.data[1]
    /\ stringStore[1].created_at < stringStore[Len(stringStore)].created_at

\* C9: a stored record is never edited in place, and it leaves the store
\* only when its own value is deleted or the store is cleared.
C9_RecordsImmutable ==
    [][\A i \in 1..Len(stringStore) :
          \/ \E j \in 1..Len(stringStore') : stringStore'[j] = stringStore[i]
          \/ /\ OperationStep
             /\ request'.method = "DELETE"
             /\ request'.path = stringStore[i].value
             /\ response'.status = 204
             /\ ~StoreHas(stringStore', stringStore[i].id)
          \/ /\ OperationStep
             /\ request'.method = "clearAll"
             /\ stringStore' = <<>>]_vars

\* a rejected add, of a value that shares its digest with a stored record of
\* an earlier time, left two records in place
C9_Witness ==
    /\ IsPostOfString(request)
    /\ response.status = 409
    /\ Len(stringStore) >= 2
    /\ \E i \in 1..Len(stringStore) :
           /\ stringStore[i].id = generateSHA256(request.body.value)
           /\ stringStore[i].created_at < now

\* the clients answered to a POST of a value with this digest
PostsOf(id) ==
    {c \in Clients : /\ Replied(c)
                     /\ replies[c][1].req.method = "POST"
                     /\ generateSHA256(replies[c][1].req.body.value) = id}

CreatedOf(id) ==
    {c \in PostsOf(id) : replies[c][1].res.status = 201}

\* a record with this digest was deleted
Removed(id) ==
    \E c \in Clients : /\ Replied(c)
                       /\ replies[c][1].req.method = "DELETE"
                       /\ replies[c][1].res.status = 204
                       /\ generateSHA256(replies[c][1].req.path) = id

\* C10: of the concurrent POSTs of one value, whatever the order in which
\* they are handled, one succeeds and every other one is answered 409, and
\* the store holds exactly one record under the id of that value (as long as
\* no DELETE removed it); the store never holds two records under one id.
C10_OneAddSucceeds ==
    \A v \in ConcurrentValues :
        /\ Cardinality(RecordsWithId(stringStore, generateSHA256(v))) <= 1
        /\ (PostsOf(generateSHA256(v)) # {} /\ ~Removed(generateSHA256(v)))
           => /\ Cardinality(CreatedOf(generateSHA256(v))) = 1
              /\ \A c \in PostsOf(generateSHA256(v)) \ CreatedOf(generateSHA256(v)) :
                     replies[c][1].res.status = 409
              /\ Cardinality(RecordsWithId(stringStore, generateSHA256(v))) = 1
              /\ \A c \in CreatedOf(generateSHA256(v)) :
                     ValueStored(stringStore, replies[c][1].req.body.value)

\* three clients posted the same value: one was answered 201, two 409
C10_Witness ==
    \E v \in ConcurrentValues :
        /\ Cardinality({c \in Clients : Replied(c) /\ replies[c][1].req = PostOf(v)}) >= 3
        /\ ~Removed(generateSHA256(v))
        /\ Cardinality(CreatedOf(generateSHA256(v))) = 1

====
